---- MODULE Spec2Model ----
\* Model of src/src/App.tsx: the useWorker hook (engine bootstrap, logger,
\* errorHandler), the useObjectURL hook (display handle) and the recognition
\* effect of App (read).  The tesseract.js worker is an external collaborator:
\* it settles the jobs it was sent in the order it received them, resolving a
\* recognize job only when initialized and rejecting one at any time, and it
\* reports a rejected job to errorHandler as well as to the job's promise.
EXTENDS Integers, Sequences, FiniteSets

\* ---------------------------------------------------------------- bounds
\* Number of images the user submits in a run.
MaxSubmissions == 3
\* Status events carry progress = n / FracDen, n in 0..FracDen.  A power of
\* two, so that m.progress * 100 is exact in IEEE double arithmetic.
FracDen == 8
\* Number of distinct texts the engine may return for an image.
NumTexts == 2

\* ---------------------------------------------------------------- values
\* null of useState<File | null>, useState<string | null>, useState<Error | null>,
\* useState<Page | null>
NoFile == 0
NoUrl == 0
NoError == "null"
NoPage == [src |-> 0, text |-> 0, words |-> 0, lines |-> 0, confidence |-> 0]

Files == 1..MaxSubmissions
\* The Page the worker returns for File f when it reads text t in it: the
\* number of word spans, of line spans, and the confidence in tenths of a
\* percent (text 2: 10 words, 2 lines, confidence 92.5).
EnginePage(f, t) ==
    [src |-> f, text |-> t, words |-> 5 * t, lines |-> t,
     confidence |-> 1000 - 75 * (t - 1)]
Pages == {EnginePage(f, t) : f \in Files, t \in 1..NumTexts}
Errors == {"InitializationError", "RecognitionError"}
Statuses == {"recognizing text", "loading tesseract core", "initializing api"}
Messages == [status : Statuses, progress : 0..FracDen]
BootSteps == <<"load", "loadLanguage", "initialize">>
\* A call made on the worker: a bootstrap step, or recognize(file).
Call(op, f) == [op |-> op, file |-> f]
\* No "recognizing text" message was logged yet.
NoEvent == [userJobId |-> NoFile, progress |-> 0]

VARIABLES
    progress,   \* useWorker: const [progress, setProgress] = useState(0)
    error,      \* useWorker: const [error, setError] = useState(null)
    boot,       \* position of useWorker's init: the step awaited, or its end
    unhandled,  \* the promise returned by init() rejected with no handler
    objUrl,     \* useObjectURL: const [objUrl, setObjUrl] = useState(null)
    liveUrls,   \* object URLs created and not yet revoked
    urlCount,   \* object URLs created so far (each createObjectURL is fresh)
    ocr,        \* App: const [ocr, setOcr] = useState(null)
    image,      \* App: const [image, setImage] = useState(null)
    loading,    \* App: const [loading, setLoading] = useState(false)
    readPc,     \* position of the read() invocation started for each File
    jobs,       \* recognize jobs the worker holds, oldest first
    data,       \* read: const { data } = await worker.recognize(image), last one
    calls,      \* the calls made on the worker so far, in order
    lastRecog   \* the last "recognizing text" message passed to logger

vars == <<progress, error, boot, unhandled, objUrl, liveUrls, urlCount,
          ocr, image, loading, readPc, jobs, data, calls, lastRecog>>

\* ---------------------------------------------------------------- helpers
\* Math.round(m.progress * 100) for m.progress = n / FracDen: the nearest
\* integer, halves rounded up.
RoundPercent(n) == (2 * 100 * n + FracDen) \div (2 * FracDen)

\* logger keeping the largest percentage seen, whatever the status.
loggerMonotonic(m, p) ==
    IF RoundPercent(m.progress) > p THEN RoundPercent(m.progress) ELSE p

\* logger: (m) => { if (m?.status === "recognizing text") setProgress(...) }
logger(m, p) == IF m.status = "recognizing text" THEN RoundPercent(m.progress) ELSE p

\* errorHandler: (e) => { setError(e) }
errorHandler(e, old) == e

\* read storing only the text of data: the spans and the confidence are lost.
setOcrTextOnly(d, old) == [NoPage EXCEPT !.src = d.src, !.text = d.text]

\* read, success path: setOcr(data)
setOcr(d, old) == d

\* clearError = () => setError(null)
clearError(old) == NoError

\* read with setLoading(false) missing after the try/catch.
setLoadingDoneSkipped(l) == l

\* read, after the try/catch, on either path: setLoading(false)
setLoadingDone(l) == FALSE

\* useWorker's effect without its dependency array: every render calls init()
\* again, which calls worker.load().
useWorkerEffectEveryRender(c) == Append(c, Call(BootSteps[1], NoFile))

\* useWorker's effect on a re-render: its dependencies [lang, worker] are the
\* same (useState, useConst), so init() is not called again.
useWorkerEffect(c) == c

\* read with a catch block that calls worker.recognize(image) again.
catchBlockRetry(c, f) == Append(c, Call("recognize", f))

\* read, failure path: catch {} makes no call on the worker.
catchBlock(c, f) == c

\* useObjectURL's effect without the cleanup of its previous run: the URL of
\* the previous image is never revoked.
RebindNoRevoke(live, old, new) == live \cup {new}

\* useObjectURL's effect for a new non-null img: the cleanup of the previous
\* effect run revokes the URL that run created, then a new URL is created.
Rebind(live, old, new) == (live \ {old}) \cup {new}

\* The read() invocations suspended at their await of worker.recognize.  Every
\* change event of the file input delivers a new File object, so each
\* submission starts its own invocation.
InFlight == {s \in Files : readPc[s] = "awaitRecognize"}

\* ---------------------------------------------------------------- Init
\* State after the first render: every useState holds its initial value and no
\* effect has run.
Init ==
    /\ progress = 0
    /\ error = NoError
    /\ boot = "uninitialized"
    /\ unhandled = FALSE
    /\ objUrl = NoUrl
    /\ liveUrls = {}
    /\ urlCount = 0
    /\ ocr = NoPage
    /\ image = NoFile
    /\ loading = FALSE
    /\ readPc = [s \in Files |-> "notStarted"]
    /\ jobs = <<>>
    /\ data = NoPage
    /\ calls = <<>>
    /\ lastRecog = NoEvent

\* ---------------------------------------------------------------- actions
\* The effects of the first commit: useWorker's effect calls init(), which
\* calls worker.load() and awaits it; useObjectURL's effect sets objUrl to null
\* (img is null); App's effect does nothing (image is null).
Mount ==
    /\ boot = "uninitialized"
    /\ boot' = BootSteps[1]
    /\ objUrl' = NoUrl
    /\ calls' = Append(calls, Call(BootSteps[1], NoFile))
    /\ UNCHANGED <<progress, error, unhandled, liveUrls, urlCount, ocr, image,
                   loading, readPc, jobs, data, lastRecog>>

\* The awaited bootstrap step resolves: init goes on to the next step, or ends.
BootStepResolve ==
    /\ \E i \in 1..Len(BootSteps) :
          /\ boot = BootSteps[i]
          /\ boot' = IF i < Len(BootSteps) THEN BootSteps[i + 1] ELSE "ready"
          /\ calls' = IF i < Len(BootSteps)
                         THEN Append(calls, Call(BootSteps[i + 1], NoFile))
                         ELSE calls
    /\ UNCHANGED <<progress, error, unhandled, objUrl, liveUrls, urlCount, ocr,
                   image, loading, readPc, jobs, data, lastRecog>>

\* The awaited bootstrap step rejects: the worker calls errorHandler, the await
\* throws inside init, and the promise of init() rejects; nothing handles it.
BootStepReject ==
    /\ \E i \in 1..Len(BootSteps) : boot = BootSteps[i]
    /\ boot' = "failed"
    /\ error' = errorHandler("InitializationError", error)
    /\ unhandled' = TRUE
    /\ UNCHANGED <<progress, objUrl, liveUrls, urlCount, ocr, image, loading,
                   readPc, jobs, data, calls, lastRecog>>

\* onImageChange where read also calls setProgress(0) before the recognition.
onImageChangeResetsProgress ==
    /\ boot # "uninitialized"
    /\ image < MaxSubmissions
    /\ image' = image + 1
    /\ urlCount' = urlCount + 1
    /\ liveUrls' = Rebind(liveUrls, objUrl, urlCount')
    /\ objUrl' = urlCount'
    /\ loading' = TRUE
    /\ readPc' = [readPc EXCEPT ![image'] = "awaitRecognize"]
    /\ jobs' = Append(jobs, image')
    /\ calls' = Append(useWorkerEffect(calls), Call("recognize", image'))
    /\ progress' = 0
    /\ UNCHANGED <<error, boot, unhandled, ocr, data, lastRecog>>

\* onImageChange with a file, and the effects of the render it causes:
\* setImage(file); useObjectURL revokes the previous URL and creates one for
\* the file; App's effect calls read(), which sets loading and calls
\* worker.recognize(image), whatever the state of the bootstrap.
onImageChange ==
    /\ boot # "uninitialized"
    /\ image < MaxSubmissions
    /\ image' = image + 1
    /\ urlCount' = urlCount + 1
    /\ liveUrls' = Rebind(liveUrls, objUrl, urlCount')
    /\ objUrl' = urlCount'
    /\ loading' = TRUE
    /\ readPc' = [readPc EXCEPT ![image'] = "awaitRecognize"]
    /\ jobs' = Append(jobs, image')
    /\ calls' = Append(useWorkerEffect(calls), Call("recognize", image'))
    /\ UNCHANGED <<progress, error, boot, unhandled, ocr, data, lastRecog>>

\* The worker posts a progress message: the logger runs.
LoggerEvent ==
    /\ \E m \in Messages :
          /\ \/ jobs # <<>>
             \/ /\ m.status # "recognizing text"
                /\ \E i \in 1..Len(BootSteps) : boot = BootSteps[i]
          /\ progress' = logger(m, progress)
          /\ lastRecog' = IF m.status = "recognizing text"
                             THEN [userJobId |-> Head(jobs), progress |-> m.progress]
                             ELSE lastRecog
    /\ UNCHANGED <<error, boot, unhandled, objUrl, liveUrls, urlCount, ocr,
                   image, loading, readPc, jobs, data, calls>>

\* The oldest recognize job resolves with data: read continues after its
\* await with clearError(); setOcr(data); setLoading(false).  The worker can
\* produce a result only once it is initialized, and its messages arrive in
\* the order it posted them, so init has seen initialize resolve by then.
RecognizeResolve ==
    /\ jobs # <<>>
    /\ boot = "ready"
    /\ \E t \in 1..NumTexts :
          data' = EnginePage(Head(jobs), t)
    /\ ocr' = setOcr(data', ocr)
    /\ error' = clearError(error)
    /\ loading' = setLoadingDone(loading)
    /\ readPc' = [readPc EXCEPT ![Head(jobs)] = "doneTry"]
    /\ jobs' = Tail(jobs)
    /\ UNCHANGED <<progress, boot, unhandled, objUrl, liveUrls, urlCount, image,
                   calls, lastRecog>>

\* RecognizeReject where the catch block of read calls setOcr(null).
RecognizeRejectClearsResult ==
    /\ jobs # <<>>
    /\ error' = errorHandler("RecognitionError", error)
    /\ loading' = setLoadingDone(loading)
    /\ readPc' = [readPc EXCEPT ![Head(jobs)] = "doneCatch"]
    /\ jobs' = Tail(jobs)
    /\ ocr' = NoPage
    /\ calls' = catchBlock(calls, Head(jobs))
    /\ UNCHANGED <<progress, boot, unhandled, objUrl, liveUrls, urlCount,
                   image, data, lastRecog>>

\* The oldest recognize job rejects: the worker calls errorHandler, and read
\* continues in its empty catch block and then with setLoading(false).
RecognizeReject ==
    /\ jobs # <<>>
    /\ error' = errorHandler("RecognitionError", error)
    /\ loading' = setLoadingDone(loading)
    /\ readPc' = [readPc EXCEPT ![Head(jobs)] = "doneCatch"]
    /\ jobs' = Tail(jobs)
    /\ calls' = catchBlock(calls, Head(jobs))
    /\ UNCHANGED <<progress, boot, unhandled, objUrl, liveUrls, urlCount, ocr,
                   image, data, lastRecog>>

Next ==
    \/ Mount
    \/ BootStepResolve
    \/ BootStepReject
    \/ onImageChange
    \/ LoggerEvent
    \/ RecognizeResolve
    \/ RecognizeReject

Spec == Init /\ [][Next]_vars

\* Every recognize job the worker holds is eventually settled, one way or the
\* other: the worker answers each message it was sent.
FairSpec == Spec /\ WF_vars(RecognizeResolve \/ RecognizeReject)

\* ---------------------------------------------------------------- typing
TypeOK ==
    /\ progress \in 0..100
    /\ error \in Errors \cup {NoError}
    /\ boot \in {"uninitialized", "load", "loadLanguage", "initialize", "ready", "failed"}
    /\ unhandled \in BOOLEAN
    /\ objUrl \in 0..MaxSubmissions
    /\ liveUrls \subseteq 1..MaxSubmissions
    /\ urlCount \in 0..MaxSubmissions
    /\ ocr \in Pages \cup {NoPage}
    /\ image \in Files \cup {NoFile}
    /\ loading \in BOOLEAN
    /\ readPc \in [Files -> {"notStarted", "awaitRecognize", "doneTry", "doneCatch"}]
    /\ jobs \in Seq(Files)
    /\ data \in Pages \cup {NoPage}
    /\ calls \in Seq([op : {"load", "loadLanguage", "initialize", "recognize"},
                      file : Files \cup {NoFile}])
    /\ lastRecog \in [userJobId : Files \cup {NoFile}, progress : 0..FracDen]

\* ---------------------------------------------------------------- claims
\* The session a read() invocation belongs to is the File it was started for;
\* the current session is the one of the File held in image.
Settles(s) == readPc[s] = "awaitRecognize" /\ readPc'[s] # "awaitRecognize"
Starts(s) == readPc[s] = "notStarted" /\ readPc'[s] = "awaitRecognize"

\* C1: when an image was submitted after image A and before A's recognition
\* call settles, A's settling (success or failure) changes neither the shared
\* result nor the shared error.
C1_StaleOutcomeDiscarded ==
    [][\A s \in Files : (Settles(s) /\ s # image) => (ocr' = ocr /\ error' = error)]_vars

\* C2: loading is true in every state in which the recognition call of the
\* most recently submitted session is unresolved.
C2_LoadingWhileCurrentInFlight ==
    (image # NoFile /\ readPc[image] = "awaitRecognize") => loading

\* C3: in every committed state (no recognition call in flight) error and
\* result are not both non-null.
C3_ErrorResultExclusive ==
    jobs = <<>> => ~(error # NoError /\ ocr # NoPage)

\* C4: at most one session has its recognition call issued and unresolved while
\* its outcome is still going to be committed.
C4_AtMostOneRunning ==
    Cardinality(InFlight) <= 1

\* C5: a recognition call is issued only when the bootstrap load ->
\* loadLanguage -> initialize has completed.
C5_RecognizeOnlyWhenReady ==
    [][\A s \in Files : Starts(s) => boot = "ready"]_vars

\* C6: once a bootstrap step has rejected, the rejection is not left as an
\* unhandled rejection, a submission issues no recognition call, and the state
\* it ends in has loading = false, error non-null and result = null.
C6_BootFailureCommitted ==
    [][boot = "failed" =>
          /\ ~unhandled
          /\ \A s \in Files : ~Starts(s)
          /\ image' # image => (~loading' /\ error' # NoError /\ ocr' = NoPage)]_vars

\* C7: immediately after a submission the shared error is null, whatever error
\* an earlier session left.
C7_SubmitClearsError ==
    [][image' # image => (loading' /\ error' = NoError)]_vars

\* C8: when the recognition call of the current session rejects, the state
\* committed is loading = false, error non-null and result = null.
C8_RejectCommitsErrorOnly ==
    [][(image # NoFile /\ readPc[image] = "awaitRecognize" /\ readPc'[image] = "doneCatch")
          => (~loading' /\ error' # NoError /\ ocr' = NoPage)]_vars

\* C9: progress changes only on a status event of the recognition call of the
\* most recently submitted session.
C9_ProgressOnlyFromCurrentSession ==
    [][progress' # progress => (jobs # <<>> /\ Head(jobs) = image)]_vars

\* C10: the number of display handles created and not yet revoked is 0 or 1
\* after any number of submissions, and the handle held is the one of the
\* image bound last.
C10_AtMostOneLiveHandle ==
    /\ Cardinality(liveUrls) <= 1
    /\ liveUrls = IF objUrl = NoUrl THEN {} ELSE {objUrl}

\* C10 witness: a second image was bound while the handle of the first was
\* live, and one handle is live.
C10_Witness ==
    /\ urlCount >= 2
    /\ objUrl = urlCount
    /\ Cardinality(liveUrls) = 1

\* C11: once the recognition call of the last submitted session has settled,
\* loading is false (and stays false as long as no image is submitted); and,
\* every recognition call being settled eventually, loading = true always
\* leads to loading = false.
C11_LoadingEventuallyCleared ==
    /\ []((image # NoFile /\ readPc[image] # "awaitRecognize") => ~loading)
    /\ [][(~loading /\ image' = image) => ~loading']_vars
    /\ (loading ~> ~loading)

\* C11 witness: two images were submitted, the call of the second one was
\* rejected, and loading is false.
C11_Witness ==
    /\ image >= 2
    /\ readPc[image] = "doneCatch"
    /\ ~loading

\* The position in calls of the first call of op on file f, 0 if there is none.
CallIndex(op, f) ==
    IF \E i \in 1..Len(calls) : calls[i] = Call(op, f)
        THEN CHOOSE i \in 1..Len(calls) :
                /\ calls[i] = Call(op, f)
                /\ \A j \in 1..(i - 1) : calls[j] # Call(op, f)
        ELSE 0

\* recognize(f) was called before init reached worker.initialize.
CalledBeforeReady(f) ==
    /\ CallIndex("recognize", f) > 0
    /\ \/ CallIndex("initialize", NoFile) = 0
       \/ CallIndex("recognize", f) < CallIndex("initialize", NoFile)

\* C12: when the only submission's recognition call resolves with data R and
\* the last "recognizing text" event was one of that call with fraction 1, the
\* state committed is loading = false, progress = 100, result = R with its
\* words, lines and confidence, error = null.
C12_SingleSubmissionCommits ==
    [][(/\ image = 1
        /\ readPc[1] = "awaitRecognize"
        /\ readPc'[1] = "doneTry"
        /\ lastRecog = [userJobId |-> 1, progress |-> FracDen])
          => (/\ ~loading'
              /\ progress' = 100
              /\ ocr' = data'
              /\ ocr' \in {EnginePage(1, t) : t \in 1..NumTexts}
              /\ error' = NoError)]_vars

\* C12 witness: the only image was submitted before the bootstrap reached
\* initialize, the bootstrap completed, the call's last event had fraction 1,
\* and it resolved with 10 words, 2 lines and confidence 92.5.
C12_Witness ==
    /\ image = 1
    /\ CalledBeforeReady(1)
    /\ boot = "ready"
    /\ readPc[1] = "doneTry"
    /\ lastRecog = [userJobId |-> 1, progress |-> FracDen]
    /\ ~loading
    /\ progress = 100
    /\ ocr = [src |-> 1, text |-> 2, words |-> 10, lines |-> 2, confidence |-> 925]
    /\ error = NoError

\* The bootstrap calls made on the worker, in order.
IsBootCall(c) == c.op # "recognize"
BootCalls == SelectSeq(calls, IsBootCall)

\* C13: the bootstrap calls made on the worker are load, loadLanguage,
\* initialize, in that order and each at most once, whatever the number of
\* submissions before or after; all three were made when the engine is ready.
C13_BootstrapOnce ==
    /\ Len(BootCalls) <= Len(BootSteps)
    /\ \A i \in 1..Len(BootCalls) : BootCalls[i] = Call(BootSteps[i], NoFile)
    /\ boot = "ready" => Len(BootCalls) = Len(BootSteps)
    /\ boot \in {"load", "loadLanguage", "initialize"}
          => BootCalls[Len(BootCalls)].op = boot

\* C13 witness: one image was submitted while the bootstrap was in flight and
\* another after it completed, and three bootstrap calls were made.
C13_Witness ==
    /\ boot = "ready"
    /\ image >= 2
    /\ CalledBeforeReady(1)
    /\ CallIndex("recognize", 2) > CallIndex("initialize", NoFile)
    /\ Len(BootCalls) = Len(BootSteps)

\* C14: after a bootstrap step rejected, the engine is not left failed: a
\* later submission runs the bootstrap again from worker.load().
C14_BootstrapRetried ==
    [][(boot = "failed" /\ image' # image) => boot' = BootSteps[1]]_vars

\* p is fraction n / FracDen times 100 rounded to the nearest integer, halves
\* up: p - 1/2 <= 100 * n / FracDen < p + 1/2.
IsRounded(p, n) ==
    /\ 2 * FracDen * p - FracDen <= 200 * n
    /\ 200 * n < 2 * FracDen * p + FracDen

\* C15: progress is round(fraction * 100) of the most recent "recognizing
\* text" event, 0 if there was none, and lies in 0..100; an event of another
\* phase leaves it as it is, and an event with a smaller fraction than the one
\* before sets it to the smaller value.
C15_ProgressIsLastRounded ==
    /\ [](progress \in 0..100)
    /\ [](IF lastRecog = NoEvent THEN progress = 0
                                 ELSE IsRounded(progress, lastRecog.progress))
    /\ [][lastRecog' = lastRecog => progress' = progress]_vars
    /\ [][lastRecog'.progress < lastRecog.progress
            => (progress' <= progress /\ IsRounded(progress', lastRecog'.progress))]_vars

\* C15 witness: the last "recognizing text" event had fraction 1 / FracDen,
\* which is not a whole percentage, and progress is its rounding; the call it
\* belonged to has resolved since.
C15_Witness ==
    /\ lastRecog = [userJobId |-> 1, progress |-> 1]
    /\ progress = (200 + FracDen) \div (2 * FracDen)
    /\ progress > 0
    /\ readPc[1] = "doneTry"

\* The number of recognize calls made on the worker for File f.
RecognizeCalls(f) ==
    Cardinality({i \in 1..Len(calls) : calls[i] = Call("recognize", f)})

\* C16: exactly one recognize call was made for every image submitted and
\* none for any other; a call that has settled, rejected ones included, is not
\* among the jobs of the worker again.
C16_OneCallPerSubmission ==
    /\ \A f \in Files : RecognizeCalls(f) = IF f <= image THEN 1 ELSE 0
    /\ \A f \in Files :
          readPc[f] \in {"doneTry", "doneCatch"}
             => \A i \in 1..Len(jobs) : jobs[i] # f

\* C16 witness: the call of the first image was rejected, a second image was
\* submitted since, and each has one recognize call.
C16_Witness ==
    /\ readPc[1] = "doneCatch"
    /\ image = 2
    /\ RecognizeCalls(1) = 1
    /\ RecognizeCalls(2) = 1

\* C17: whenever loading is false, error is null and result is non-null, the
\* result is the one of recognizing the image currently bound.
C17_ResultOfBoundImage ==
    (~loading /\ error = NoError /\ ocr # NoPage) => ocr.src = image

\* C18: a recognition call that rejects leaves result as it was; of the state
\* of App and of progress, the step changes loading only (error is set by the
\* worker's errorHandler, not by read).
C18_RejectKeepsResult ==
    [][\A s \in Files :
          (readPc[s] = "awaitRecognize" /\ readPc'[s] = "doneCatch")
             => (/\ ocr' = ocr
                 /\ ~loading'
                 /\ image' = image
                 /\ progress' = progress)]_vars

\* C18 witness: the first image's call resolved with a page, the second
\* image's call was rejected, and result still holds the first page.
C18_Witness ==
    /\ readPc[1] = "doneTry"
    /\ readPc[2] = "doneCatch"
    /\ ocr # NoPage
    /\ ocr.src = 1
    /\ error # NoError

\* C19: a submission sets loading and leaves progress as it was, and progress
\* changes only with a "recognizing text" event, so it holds the previous
\* session's last value until the first such event after the submission.
C19_SubmitKeepsProgress ==
    /\ [][image' # image => (loading' /\ progress' = progress)]_vars
    /\ [][progress' # progress => lastRecog' # lastRecog]_vars

\* C19 witness: the second image was submitted after the first one's call had
\* settled, its call is unresolved, and progress still holds 100, the value of
\* the last event of the first image's call.
C19_Witness ==
    /\ image = 2
    /\ readPc[1] = "doneTry"
    /\ readPc[2] = "awaitRecognize"
    /\ loading
    /\ lastRecog = [userJobId |-> 1, progress |-> FracDen]
    /\ progress = 100

====
